---- MODULE Spec2Model ----
(***************************************************************************)
(* Model of src/bst.py: an unbalanced binary search tree storing key-value *)
(* pairs (class BinarySearchTree over TreeNode).                           *)
(*                                                                         *)
(* A TreeNode is a record [key, value, left, right]; a child reference is  *)
(* the child subtree itself, because every node is referenced by exactly   *)
(* one parent (or by root) and no reference to a node leaves the class.    *)
(* An assignment to a field of a node is the record with that field        *)
(* replaced, handed back to whoever references the node; the position of a *)
(* node is its path from the root.                                         *)
(***************************************************************************)
EXTENDS Integers, Sequences, FiniteSets, TLC

\* ------------------------------------------------------------------ bounds
\* Keys are 1..MaxKey where calls are free and values vary (Spec).
MaxKey == 5

Keys == 1 .. MaxKey

\* Keys are 1..MaxShapeKey where only the shape of the tree matters and every
\* value is the same (ShapeSpec, and the builds of ScriptSpec).
MaxShapeKey == 6

ShapeKeys == 1 .. MaxShapeKey

ShapeValue == "v1"

\* Payloads are opaque; two distinct ones tell an overwrite from a no-op.
Values == {"v1", "v2"}

\* ------------------------------------------------------------- data model
\* Python's None where a TreeNode is optional (root, left, right).
None == [nil |-> TRUE]

\* Python's None where a value is optional (the result of search, and the
\* result of insert, which returns nothing).
NoValue == "None"

\* TreeNode(key, value): left and right default to None.
TreeNode(key, value) ==
    [key |-> key, value |-> value, left |-> None, right |-> None]

Max(a, b) == IF a >= b THEN a ELSE b

Abs(a) == IF a >= 0 THEN a ELSE -a

\* ------------------------------------------------------------------ insert
\* insert's loop with a slip: "no_overwrite" leaves the value of an equal key
\* as it was; "no_equal_test" has no test for an equal key, which then goes
\* right like a greater one.
RECURSIVE insert_loop_slip(_, _, _, _)
insert_loop_slip(current, key, value, slip) ==
    IF key = current.key /\ slip = "no_overwrite" THEN
        current
    ELSE IF key < current.key THEN
        IF current.left = None THEN
            [current EXCEPT !.left = TreeNode(key, value)]
        ELSE
            [current EXCEPT
                !.left = insert_loop_slip(current.left, key, value, slip)]
    ELSE
        IF current.right = None THEN
            [current EXCEPT !.right = TreeNode(key, value)]
        ELSE
            [current EXCEPT
                !.right = insert_loop_slip(current.right, key, value, slip)]

insert_loop_no_overwrite(current, key, value) ==
    insert_loop_slip(current, key, value, "no_overwrite")

insert_loop_no_equal_test(current, key, value) ==
    insert_loop_slip(current, key, value, "no_equal_test")

\* The loop of insert from `current` on, giving the subtree at `current`
\* after the call.
RECURSIVE insert_loop(_, _, _)
insert_loop(current, key, value) ==
    IF key = current.key THEN
        [current EXCEPT !.value = value]
    ELSE IF key < current.key THEN
        IF current.left = None THEN
            [current EXCEPT !.left = TreeNode(key, value)]
        ELSE
            [current EXCEPT !.left = insert_loop(current.left, key, value)]
    ELSE
        IF current.right = None THEN
            [current EXCEPT !.right = TreeNode(key, value)]
        ELSE
            [current EXCEPT !.right = insert_loop(current.right, key, value)]

\* insert(key, value) on a tree with root r: the root afterwards.
insert(r, key, value) ==
    IF r = None THEN TreeNode(key, value) ELSE insert_loop(r, key, value)

\* ------------------------------------------------------------------ search
\* search's loop descending to the wrong side.
RECURSIVE search_loop_wrong_side(_, _)
search_loop_wrong_side(current, key) ==
    IF current = None THEN NoValue
    ELSE IF key = current.key THEN current.value
    ELSE search_loop_wrong_side(
             IF key < current.key THEN current.right ELSE current.left, key)

RECURSIVE search_loop(_, _)
search_loop(current, key) ==
    IF current = None THEN NoValue
    ELSE IF key = current.key THEN current.value
    ELSE search_loop(IF key < current.key THEN current.left ELSE current.right,
                     key)

search(r, key) == search_loop(r, key)

\* ------------------------------------------------------------------ delete
\* The successor taken to be the right child, without the loop.
successor_loop_skipped(successor) == successor

\* The successor loop: follow left references while there is one.
RECURSIVE successor_loop(_)
successor_loop(successor) ==
    IF successor.left # None THEN successor_loop(successor.left) ELSE successor

\* _delete with a slip: "drop_child" returns nothing where the matched node
\* has only a right child; "return_child" returns what the recursion on the
\* left branch returned instead of the node; "key_only" promotes the
\* successor's key without its value.
RECURSIVE _delete_slip(_, _, _)
_delete_slip(node, target, slip) ==
    IF node = None THEN
        [node |-> None, removed |-> FALSE, cases |-> <<>>]
    ELSE IF target < node.key THEN
        LET r == _delete_slip(node.left, target, slip)
        IN  [node |-> IF slip = "return_child" THEN r.node
                      ELSE [node EXCEPT !.left = r.node],
             removed |-> r.removed, cases |-> r.cases]
    ELSE IF target > node.key THEN
        LET r == _delete_slip(node.right, target, slip)
        IN  [node |-> [node EXCEPT !.right = r.node],
             removed |-> r.removed, cases |-> r.cases]
    ELSE IF node.left = None /\ node.right = None THEN
        [node |-> None, removed |-> TRUE, cases |-> <<"leaf">>]
    ELSE IF node.left = None THEN
        [node |-> IF slip = "drop_child" THEN None ELSE node.right,
         removed |-> TRUE, cases |-> <<"right">>]
    ELSE IF node.right = None THEN
        [node |-> node.left, removed |-> TRUE, cases |-> <<"left">>]
    ELSE
        LET successor == successor_loop(node.right)
            r == _delete_slip(node.right, successor.key, slip)
        IN  [node |-> [node EXCEPT
                          !.key = successor.key,
                          !.value = IF slip = "key_only" THEN node.value
                                    ELSE successor.value,
                          !.right = r.node],
             removed |-> TRUE, cases |-> <<"successor">> \o r.cases]

_delete_drop_child(node, target) == _delete_slip(node, target, "drop_child")

_delete_return_child(node, target) == _delete_slip(node, target, "return_child")

_delete_key_only(node, target) == _delete_slip(node, target, "key_only")

\* _delete(node, target): the pair (new subtree root, removed) the code
\* returns, with `cases`, the structural cases the call and its nested calls
\* resolved a match by, in order: "leaf", "right" (only a right child,
\* spliced), "left" (only a left child, spliced), "successor" (two children).
RECURSIVE _delete(_, _)
_delete(node, target) ==
    IF node = None THEN
        [node |-> None, removed |-> FALSE, cases |-> <<>>]
    ELSE IF target < node.key THEN
        LET r == _delete(node.left, target)
        IN  [node |-> [node EXCEPT !.left = r.node],
             removed |-> r.removed, cases |-> r.cases]
    ELSE IF target > node.key THEN
        LET r == _delete(node.right, target)
        IN  [node |-> [node EXCEPT !.right = r.node],
             removed |-> r.removed, cases |-> r.cases]
    ELSE IF node.left = None /\ node.right = None THEN
        [node |-> None, removed |-> TRUE, cases |-> <<"leaf">>]
    ELSE IF node.left = None THEN
        [node |-> node.right, removed |-> TRUE, cases |-> <<"right">>]
    ELSE IF node.right = None THEN
        [node |-> node.left, removed |-> TRUE, cases |-> <<"left">>]
    ELSE
        LET successor == successor_loop(node.right)
            r == _delete(node.right, successor.key)
        IN  [node |-> [node EXCEPT !.key = successor.key,
                                   !.value = successor.value,
                                   !.right = r.node],
             removed |-> TRUE, cases |-> <<"successor">> \o r.cases]

\* delete(key) on a tree with root r: the new root and the returned flag.
delete(r, key) == _delete(r, key)

\* ------------------------------------------------------------------ height
\* The height counted in edges: an absent subtree is -1.
RECURSIVE _height_in_edges(_)
_height_in_edges(node) ==
    IF node = None THEN -1
    ELSE 1 + Max(_height_in_edges(node.left), _height_in_edges(node.right))

RECURSIVE _height(_)
_height(node) ==
    IF node = None THEN 0
    ELSE 1 + Max(_height(node.left), _height(node.right))

height(r) == _height(r)

\* -------------------------------------------------------------- is_balanced
\* _check with a slip: "local" leaves the children's flags out of the
\* conjunction; "slack" lets the heights differ by 2.
RECURSIVE _check_slip(_, _)
_check_slip(node, slip) ==
    IF node = None THEN <<0, TRUE>>
    ELSE
        LET l == _check_slip(node.left, slip)
            r == _check_slip(node.right, slip)
        IN  <<1 + Max(l[1], r[1]),
              /\ slip = "local" \/ (l[2] /\ r[2])
              /\ Abs(l[1] - r[1]) <= (IF slip = "slack" THEN 2 ELSE 1)>>

_check_local(node) == _check_slip(node, "local")

_check_slack(node) == _check_slip(node, "slack")

\* _check(node): the pair (height, balanced) of the single traversal.
RECURSIVE _check(_)
_check(node) ==
    IF node = None THEN <<0, TRUE>>
    ELSE
        LET l == _check(node.left)
            r == _check(node.right)
            left_height == l[1]
            left_balanced == l[2]
            right_height == r[1]
            right_balanced == r[2]
        IN  <<1 + Max(left_height, right_height),
              /\ left_balanced
              /\ right_balanced
              /\ Abs(left_height - right_height) <= 1>>

is_balanced(r) == _check(r)[2]

\* ------------------------------------------------------------------- state
\* root      BinarySearchTree.root
\* lastOp    the last public call: its name, arguments and result (ret), and
\*           for delete the structural cases it went through
\* contents  the finite map the calls so far describe: for every key the value
\*           of its last insert not followed by a delete, else NoValue
\* before    root as it was when the last call began
\* script    the calls a scripted run has still to make (empty in a free run)
\* run       the input of the run: its kind, the sorted keys a build was
\*           derived from, and the whole script
VARIABLES root, lastOp, contents, before, script, run

vars == <<root, lastOp, contents, before, script, run>>

\* The keys and values of the demonstration routine.
DemoPairs == <<<<5, "root">>, <<3, "left">>, <<7, "right">>, <<2, "leaf">>,
               <<4, "mid">>>>

DemoKeys == {DemoPairs[i][1] : i \in 1 .. Len(DemoPairs)}

AllKeys == Keys \cup ShapeKeys \cup DemoKeys

Call(name, key, value, ret, cases) ==
    [name |-> name, key |-> key, value |-> value, ret |-> ret, cases |-> cases]

\* tree = BinarySearchTree()
NewTree ==
    /\ root = None
    /\ lastOp = Call("init", 0, NoValue, NoValue, <<>>)
    /\ contents = [k \in AllKeys |-> NoValue]
    /\ before = None

\* ------------------------------------------------------------ public calls
Insert(key, value) ==
    /\ root' = insert(root, key, value)
    /\ lastOp' = Call("insert", key, value, NoValue, <<>>)
    /\ contents' = [contents EXCEPT ![key] = value]
    /\ before' = root

Search(key) ==
    /\ lastOp' = Call("search", key, NoValue, search(root, key), <<>>)
    /\ before' = root
    /\ UNCHANGED <<root, contents>>

Delete(key) ==
    LET d == delete(root, key)
    IN  /\ root' = d.node
        /\ lastOp' = Call("delete", key, NoValue, d.removed, d.cases)
        /\ contents' = [contents EXCEPT ![key] = NoValue]
        /\ before' = root

Height ==
    /\ lastOp' = Call("height", 0, NoValue, height(root), <<>>)
    /\ before' = root
    /\ UNCHANGED <<root, contents>>

IsBalanced ==
    /\ lastOp' = Call("is_balanced", 0, NoValue, is_balanced(root), <<>>)
    /\ before' = root
    /\ UNCHANGED <<root, contents>>

\* ------------------------------------------- free run: any call, any time
Init ==
    /\ NewTree
    /\ script = <<>>
    /\ run = [kind |-> "free", keys |-> <<>>, script |-> <<>>]

DoInsert == \E key \in Keys, value \in Values :
    Insert(key, value) /\ UNCHANGED <<script, run>>

DoSearch == \E key \in Keys : Search(key) /\ UNCHANGED <<script, run>>

DoDelete == \E key \in Keys : Delete(key) /\ UNCHANGED <<script, run>>

DoHeight == Height /\ UNCHANGED <<script, run>>

DoIsBalanced == IsBalanced /\ UNCHANGED <<script, run>>

Next == DoInsert \/ DoSearch \/ DoDelete \/ DoHeight \/ DoIsBalanced

Spec == Init /\ [][Next]_vars

\* --------------------------- free run over more keys, all of the same value
GrowInsert == \E key \in ShapeKeys :
    Insert(key, ShapeValue) /\ UNCHANGED <<script, run>>

GrowSearch == \E key \in ShapeKeys : Search(key) /\ UNCHANGED <<script, run>>

GrowDelete == \E key \in ShapeKeys : Delete(key) /\ UNCHANGED <<script, run>>

ShapeNext ==
    GrowInsert \/ GrowSearch \/ GrowDelete \/ DoHeight \/ DoIsBalanced

ShapeSpec == Init /\ [][ShapeNext]_vars

\* ----------------------------------------------- scripted runs: the inputs
Op(name, key, value) == [name |-> name, key |-> key, value |-> value]

\* The keys of S in strictly ascending order.
RECURSIVE SortedSeq(_)
SortedSeq(S) ==
    IF S = {} THEN <<>>
    ELSE LET m == CHOOSE x \in S : \A y \in S : x <= y
         IN  <<m>> \o SortedSeq(S \ {m})

\* Median-first order of a sorted sequence: the median, then the lower half
\* in median-first order, then the upper half. `up` = 1 takes the upper of
\* the two middle elements of an even-length sequence, `up` = 0 the lower.
RECURSIVE MedianFirst(_, _)
MedianFirst(keys, up) ==
    IF keys = <<>> THEN <<>>
    ELSE LET m == (Len(keys) + 1 + up) \div 2
         IN  <<keys[m]>>
             \o MedianFirst(SubSeq(keys, 1, m - 1), up)
             \o MedianFirst(SubSeq(keys, m + 1, Len(keys)), up)

Inserts(keys, value) == [i \in 1 .. Len(keys) |-> Op("insert", keys[i], value)]

Queries == <<Op("height", 0, NoValue), Op("is_balanced", 0, NoValue)>>

Run(kind, keys, s) == [kind |-> kind, keys |-> keys, script |-> s]

\* A build inserts the keys in the order `order`, then asks for the height
\* and the balance.
Build(kind, keys, order, value) == Run(kind, keys, Inserts(order, value) \o Queries)

BuildRuns ==
    UNION {
        {Build("ascending", SortedSeq(S), SortedSeq(S), v),
         Build("median", SortedSeq(S), MedianFirst(SortedSeq(S), 0), v),
         Build("median", SortedSeq(S), MedianFirst(SortedSeq(S), 1), v)} :
        S \in SUBSET ShapeKeys, v \in Values}

\* _demo(): the calls of the demonstration routine, in order.
DemoScript ==
    [i \in 1 .. Len(DemoPairs) |-> Op("insert", DemoPairs[i][1], DemoPairs[i][2])]
    \o <<Op("height", 0, NoValue), Op("is_balanced", 0, NoValue),
         Op("search", 4, NoValue),
         Op("delete", 3, NoValue),
         Op("search", 3, NoValue),
         Op("height", 0, NoValue), Op("is_balanced", 0, NoValue)>>

_demo == Run("demo", <<>>, DemoScript)

\* ---------------------------------------------------------- scripted runs
ScriptInit ==
    /\ NewTree
    /\ run \in BuildRuns \cup {_demo}
    /\ script = run.script

\* The next call of the script is `name`; it is taken off the script.
Take(name) ==
    /\ script # <<>>
    /\ Head(script).name = name
    /\ script' = Tail(script)
    /\ UNCHANGED run

StepInsert == Take("insert") /\ Insert(Head(script).key, Head(script).value)

StepSearch == Take("search") /\ Search(Head(script).key)

StepDelete == Take("delete") /\ Delete(Head(script).key)

StepHeight == Take("height") /\ Height

StepIsBalanced == Take("is_balanced") /\ IsBalanced

ScriptNext ==
    StepInsert \/ StepSearch \/ StepDelete \/ StepHeight \/ StepIsBalanced

ScriptSpec == ScriptInit /\ [][ScriptNext]_vars

\* The number of calls of the script made so far.
Done == Len(run.script) - Len(script)

\* ============================================================== properties
\* What the properties speak of, computed by full traversal and
\* independently of the operations above.

\* The number of nodes reachable from `node`.
RECURSIVE Size(_)
Size(node) ==
    IF node = None THEN 0 ELSE 1 + Size(node.left) + Size(node.right)

\* The keys stored under `node`.
RECURSIVE KeysOf(_)
KeysOf(node) ==
    IF node = None THEN {}
    ELSE {node.key} \cup KeysOf(node.left) \cup KeysOf(node.right)

\* The (key, value) pairs stored under `node`.
RECURSIVE Pairs(_)
Pairs(node) ==
    IF node = None THEN {}
    ELSE {<<node.key, node.value>>} \cup Pairs(node.left) \cup Pairs(node.right)

\* The number of nodes under `node` that hold key k.
RECURSIVE Holders(_, _)
Holders(node, k) ==
    IF node = None THEN 0
    ELSE (IF node.key = k THEN 1 ELSE 0)
         + Holders(node.left, k) + Holders(node.right, k)

\* The nodes under `node`, each as the subtree it roots.
RECURSIVE Nodes(_)
Nodes(node) ==
    IF node = None THEN {}
    ELSE {node} \cup Nodes(node.left) \cup Nodes(node.right)

\* The keys in in-order: left subtree, node, right subtree.
RECURSIVE InOrder(_)
InOrder(node) ==
    IF node = None THEN <<>>
    ELSE InOrder(node.left) \o <<node.key>> \o InOrder(node.right)

StrictlyAscending(seq) == \A i \in 1 .. Len(seq) - 1 : seq[i] < seq[i + 1]

\* The BST ordering at every node under `node`.
RECURSIVE Ordered(_)
Ordered(node) ==
    \/ node = None
    \/ /\ \A k \in KeysOf(node.left) : k < node.key
       /\ \A k \in KeysOf(node.right) : k > node.key
       /\ Ordered(node.left)
       /\ Ordered(node.right)

\* The tree with NoValue in place of the value of every node holding key k:
\* what is left to compare is the shape, every key and every other value.
RECURSIVE Masked(_, _)
Masked(node, k) ==
    IF node = None THEN None
    ELSE [key |-> node.key,
          value |-> IF node.key = k THEN NoValue ELSE node.value,
          left |-> Masked(node.left, k),
          right |-> Masked(node.right, k)]

\* The positions (paths from `node`: 0 for left, 1 for right) of the nodes
\* holding key k.
RECURSIVE Positions(_, _)
Positions(node, k) ==
    IF node = None THEN {}
    ELSE (IF node.key = k THEN {<<>>} ELSE {})
         \cup {<<0>> \o p : p \in Positions(node.left, k)}
         \cup {<<1>> \o p : p \in Positions(node.right, k)}

\* The node at position p under `node`, None if there is none.
RECURSIVE At(_, _)
At(node, p) ==
    IF node = None \/ p = <<>> THEN node
    ELSE At(IF Head(p) = 0 THEN node.left ELSE node.right, Tail(p))

\* 2^n.
RECURSIVE Pow2(_)
Pow2(n) == IF n = 0 THEN 1 ELSE 2 * Pow2(n - 1)

\* ceil(log2(m)) for m >= 1: the least c with 2^c >= m.
CeilLog2(m) == CHOOSE c \in 0 .. m : Pow2(c) >= m /\ \A d \in 0 .. c - 1 : Pow2(d) < m

\* Balance by definition: at every node, the heights of the two subtrees,
\* each computed by height's recursion, differ by at most 1.
NaiveBalanced(node) ==
    \A n \in Nodes(node) : Abs(_height(n.left) - _height(n.right)) <= 1

\* ------------------------------------------------------------------- C1
\* C1: after every insert and every delete from the empty tree on, every
\* key in a node's left subtree is strictly less than the node's key and
\* every key in its right subtree strictly greater, so the in-order
\* traversal is strictly ascending and no key is held twice. (ShapeSpec)
C1_Ordering ==
    /\ Ordered(root)
    /\ StrictlyAscending(InOrder(root))
    /\ \A k \in KeysOf(root) : Holders(root, k) = 1

\* A delete promoted a successor that was not the right child itself, in a
\* tree that still has four nodes.
C1_Witness ==
    /\ lastOp.name = "delete"
    /\ lastOp.ret = TRUE
    /\ lastOp.cases[1] = "successor"
    /\ \E p \in Positions(before, lastOp.key) : At(before, p).right.left # None
    /\ Size(root) >= 4

\* ------------------------------------------------------------------- C6
\* C6: in every tree reachable by inserts and deletes, with n its number of
\* nodes, height() is 0 when n = 0 and otherwise
\* ceil(log2(n+1)) <= height() <= n, that is n <= 2^height() - 1 and
\* height() <= n. (ShapeSpec)
C6_HeightBounds ==
    LET n == Size(root)
        h == height(root)
    IN  /\ n = 0 => h = 0
        /\ CeilLog2(n + 1) <= h
        /\ h <= n
        /\ n <= Pow2(h) - 1
        /\ lastOp.name = "height" => lastOp.ret = h

\* Both bounds are met with equality by reachable trees; here the lower one,
\* by a full tree of three nodes left by a delete.
C6_Witness ==
    /\ lastOp.name = "delete"
    /\ lastOp.ret = TRUE
    /\ Size(root) = 3
    /\ height(root) = 2

\* ------------------------------------------------------------------- C7
\* C7: is_balanced() is true exactly when at every node of the tree the
\* heights of the left and right subtrees (absent = 0, node = 1 + max of the
\* children) differ by at most 1; the empty tree is balanced. (ShapeSpec)
C7_BalancedAgrees ==
    /\ is_balanced(root) = NaiveBalanced(root)
    /\ root = None => is_balanced(root)
    /\ lastOp.name = "is_balanced" => lastOp.ret = NaiveBalanced(root)

\* is_balanced() returned false for a tree whose root sees subtree heights
\* within 1 of each other: the imbalance is further down.
C7_Witness ==
    /\ lastOp.name = "is_balanced"
    /\ lastOp.ret = FALSE
    /\ root # None
    /\ Abs(_height(root.left) - _height(root.right)) <= 1

\* ------------------------------------------------------------------- C2
\* C2: the tree is a finite map: after any calls from the empty tree on,
\* search(k) gives, for every key k, the value of the last insert(k, v) not
\* followed by a delete(k), and absent otherwise. (Spec)
C2_FiniteMap ==
    /\ \A k \in Keys : search(root, k) = contents[k]
    /\ lastOp.name = "search" => lastOp.ret = contents[lastOp.key]

\* search found a value that overwrote an earlier one, while another key
\* has been deleted and a third was never touched or is gone too.
C2_Witness ==
    /\ lastOp.name = "search"
    /\ lastOp.ret = "v2"
    /\ \E j \in Keys : j # lastOp.key /\ contents[j] = "v1"
    /\ \E j \in Keys : contents[j] = NoValue
    /\ Size(root) >= 3

\* ------------------------------------------------------------------- C3
\* C3: delete(k) returns true exactly when a node holds key k; after it
\* returned true, search(k) is absent, the tree has one node less, and the
\* (key, value) pairs are those of before without the pair of k. (Spec)
C3_DeleteCorrect ==
    lastOp.name = "delete" =>
        LET k == lastOp.key
        IN  /\ lastOp.ret = (k \in KeysOf(before))
            /\ lastOp.ret =>
                /\ search(root, k) = NoValue
                /\ k \notin KeysOf(root)
                /\ Size(root) = Size(before) - 1
                /\ Pairs(root) = {p \in Pairs(before) : p[1] # k}

\* delete returned true for a node with two children whose successor had a
\* child of its own.
C3_Witness ==
    /\ lastOp.name = "delete"
    /\ lastOp.ret = TRUE
    /\ lastOp.cases = <<"successor", "right">>
    /\ Size(root) >= 3

\* ------------------------------------------------------------------- C4
\* C4: delete(k) of a key that no node holds returns false and leaves the
\* tree as it was: the root and every node's key, value, left and right are
\* the same, hence so are height(), is_balanced() and every search. (Spec)
C4_DeleteMissing ==
    (lastOp.name = "delete" /\ lastOp.key \notin KeysOf(before)) =>
        /\ lastOp.ret = FALSE
        /\ root = before
        /\ height(root) = height(before)
        /\ is_balanced(root) = is_balanced(before)
        /\ \A j \in Keys : search(root, j) = search(before, j)

\* delete of a missing key walked down a tree of at least three nodes.
C4_Witness ==
    /\ lastOp.name = "delete"
    /\ lastOp.ret = FALSE
    /\ lastOp.key \notin KeysOf(before)
    /\ Size(before) >= 3
    /\ height(before) >= 3

\* ------------------------------------------------------------------- C5
\* C5: insert(k, v2) of a key some node holds changes no structure: the
\* number of nodes, the shape and every other node's key and value are the
\* same, exactly one node holds k, and its value is v2. (Spec)
C5_Overwrite ==
    (lastOp.name = "insert" /\ lastOp.key \in KeysOf(before)) =>
        LET k == lastOp.key
        IN  /\ Size(root) = Size(before)
            /\ Masked(root, k) = Masked(before, k)
            /\ Holders(root, k) = 1
            /\ \A p \in Positions(root, k) : At(root, p).value = lastOp.value

\* insert gave a new value to a key held below the root.
C5_Witness ==
    /\ lastOp.name = "insert"
    /\ lastOp.key \in KeysOf(before)
    /\ search(before, lastOp.key) # lastOp.value
    /\ before.key # lastOp.key
    /\ Size(before) >= 3

\* ------------------------------------------------------------------ C10
\* The node of least key under `node`, found among all its nodes.
MinNode(node) ==
    CHOOSE n \in Nodes(node) : \A m \in Nodes(node) : n.key <= m.key

\* The tree under `node` with `sub` as the subtree at position p.
RECURSIVE Graft(_, _, _)
Graft(node, p, sub) ==
    IF p = <<>> THEN sub
    ELSE IF Head(p) = 0 THEN [node EXCEPT !.left = Graft(node.left, Tail(p), sub)]
    ELSE [node EXCEPT !.right = Graft(node.right, Tail(p), sub)]

\* C10: when delete(k) matches a node with two children, the node stays
\* where it is with its left subtree, takes the key and value of the
\* least-key node of its right subtree, and the nested deletion of that key
\* from the right subtree matches a node without a left child: it is a leaf
\* removal or a splice of the right child, never a second promotion. (Spec)
C10_SuccessorPromotion ==
    \A p \in Positions(before, lastOp.key) :
        LET n == At(before, p)
            m == At(root, p)
        IN  (lastOp.name = "delete" /\ n.left # None /\ n.right # None) =>
                LET s == MinNode(n.right)
                IN  /\ m # None
                    /\ m.left = n.left
                    /\ m.key = s.key
                    /\ m.value = s.value
                    /\ s.left = None
                    /\ Pairs(m.right) = Pairs(n.right) \ {<<s.key, s.value>>}
                    /\ Size(m.right) = Size(n.right) - 1
                    /\ Len(lastOp.cases) = 2
                    /\ lastOp.cases[1] = "successor"
                    /\ lastOp.cases[2] = (IF s.right = None THEN "leaf" ELSE "right")
                    /\ root = Graft(before, p, m)

\* The promoted successor was below the right child of the matched node and
\* had a right child, which the nested deletion spliced in.
C10_Witness ==
    /\ lastOp.name = "delete"
    /\ lastOp.cases = <<"successor", "right">>
    /\ \E p \in Positions(before, lastOp.key) :
           At(before, p).right.left # None

\* ------------------------------------------------------------------- C8
\* C8: for every n >= 3, the tree built from empty by inserting n distinct
\* keys in strictly ascending order is reported unbalanced and has height n;
\* the tree built from empty by median-first insertion of a sorted key range
\* is reported balanced. (ScriptSpec)
C8_BuildBalance ==
    LET n == Len(run.keys)
    IN  /\ (run.kind = "ascending" /\ n >= 3 /\ Done >= n) =>
            /\ ~is_balanced(root)
            /\ height(root) = n
            /\ Size(root) = n
            /\ lastOp.name = "height" => lastOp.ret = n
            /\ lastOp.name = "is_balanced" => lastOp.ret = FALSE
        /\ (run.kind = "median" /\ Done >= n) =>
            /\ is_balanced(root)
            /\ Size(root) = n
            /\ lastOp.name = "is_balanced" => lastOp.ret = TRUE

\* The median-first build of six keys has been made and found balanced.
C8_Witness ==
    /\ run.kind = "median"
    /\ Len(run.keys) >= 6
    /\ script = <<>>
    /\ lastOp.name = "is_balanced"
    /\ lastOp.ret = TRUE

\* ------------------------------------------------------------------- C9
\* C9: the documented scenario: after the five inserts height() is 3,
\* is_balanced() is true and search(4) is "mid"; then delete(3) returns
\* true, search(3) is absent, height() is 3, is_balanced() is true, and the
\* left child of the root, which held key 3, holds key 4 with value "mid",
\* has the node of key 2 as left child and no right child. (ScriptSpec)
C9_Scenario ==
    run.kind = "demo" =>
        /\ Done = 6 => (lastOp.name = "height" /\ lastOp.ret = 3)
        /\ Done = 7 => (lastOp.name = "is_balanced" /\ lastOp.ret = TRUE)
        /\ Done = 8 => (lastOp.name = "search" /\ lastOp.ret = "mid")
        /\ Done = 9 =>
            /\ lastOp.name = "delete"
            /\ lastOp.ret = TRUE
            /\ before.left.key = 3
        /\ Done = 10 => (lastOp.name = "search" /\ lastOp.ret = NoValue)
        /\ Done = 11 => (lastOp.name = "height" /\ lastOp.ret = 3)
        /\ Done = 12 => (lastOp.name = "is_balanced" /\ lastOp.ret = TRUE)
        /\ Done >= 9 =>
            /\ root.key = 5
            /\ root.left = [key |-> 4, value |-> "mid",
                            left |-> TreeNode(2, "leaf"), right |-> None]
            /\ root.right = TreeNode(7, "right")

\* The demonstration has run to its last call.
C9_Witness ==
    /\ run.kind = "demo"
    /\ Done = 12
    /\ lastOp.name = "is_balanced"

====
